---------------------------- MODULE Spec2Model ----------------------------
(***************************************************************************)
(* Model of the rust-path-tracer viewer: the progressive sampler           *)
(* orchestrator (crates/bin/viewer/src/tracer.rs), its UI handlers          *)
(* (tracer/ui.rs), the thread pool (crates/lib/pathtracer/src/             *)
(* threadpool.rs), the running average (math.rs), the tile geometry, the   *)
(* alpha-mask restart loop of Scene::hit (scene.rs), the ray-triangle      *)
(* intersection (ray.rs), the bounce loop and next-event estimation of     *)
(* Tracer::trace (pathtracer.rs), the RGBA flattening of a texture buffer  *)
(* (tracer/texture_data.rs) and the 16-bit texel conversion                *)
(* (import_gltf.rs).                                                       *)
(***************************************************************************)
EXTENDS Integers, Sequences, FiniteSets, TLC

(***************************************************************************)
(* IEEE-754 binary32 arithmetic on the values the accumulator sees.        *)
(* A finite non-negative f32 is [m |-> mantissa, e |-> exponent] with      *)
(* value m * 2^e and either m = 0 or 2^23 <= m < 2^24; NaN is m = -1.      *)
(* Operations round to nearest, ties to even, as the hardware does.        *)
(* Exponent overflow and subnormals are outside the modelled range.        *)
(***************************************************************************)
RECURSIVE Pow2(_)
Pow2(n) == IF n <= 0 THEN 1 ELSE 2 * Pow2(n - 1)

F32Zero == [m |-> 0, e |-> 0]

F32NaN == [m |-> -1, e |-> 0]

IsNaN(a) == a.m < 0

RECURSIVE F32Norm(_, _)
\* exact conversion of the integer m * 2^e, 0 <= m < 2^24, to normal form
F32Norm(m, e) ==
    IF m = 0 THEN F32Zero
    ELSE IF m < 8388608 THEN F32Norm(2 * m, e - 1)
    ELSE [m |-> m, e |-> e]

\* `n as f32` for a small non-negative integer
F32FromInt(n) == F32Norm(n, 0)

\* round s * 2^e to 24 bits dropping the low k bits (k >= 1), ties to even
F32Round(s, k, e) ==
    LET q    == s \div Pow2(k)
        r    == s % Pow2(k)
        half == Pow2(k - 1)
        up   == r > half \/ (r = half /\ q % 2 = 1)
        q2   == IF up THEN q + 1 ELSE q
    IN  IF q2 = 16777216 THEN [m |-> 8388608, e |-> e + k + 1]
        ELSE [m |-> q2, e |-> e + k]

\* a + b
F32Add(a, b) ==
    IF IsNaN(a) \/ IsNaN(b) THEN F32NaN
    ELSE IF a.m = 0 THEN b
    ELSE IF b.m = 0 THEN a
    ELSE
      LET hi == IF a.e >= b.e THEN a ELSE b
          lo == IF a.e >= b.e THEN b ELSE a
          d  == hi.e - lo.e
          A  == hi.m * 8
          B  == IF d <= 3 THEN lo.m * Pow2(3 - d)
                ELSE IF d - 3 >= 27 THEN 1
                ELSE LET q == lo.m \div Pow2(d - 3)
                         r == lo.m % Pow2(d - 3)
                     IN  IF r # 0 /\ q % 2 = 0 THEN q + 1 ELSE q
          S  == A + B
      IN  IF S >= 134217728 THEN F32Round(S, 4, hi.e - 3)
          ELSE F32Round(S, 3, hi.e - 3)

\* a * b; the 48-bit product is formed from 12-bit limbs
F32Mul(a, b) ==
    IF IsNaN(a) \/ IsNaN(b) THEN F32NaN
    ELSE IF a.m = 0 \/ b.m = 0 THEN F32Zero
    ELSE
      LET a1  == a.m \div 4096
          a0  == a.m % 4096
          b1  == b.m \div 4096
          b0  == b.m % 4096
          mid == a1 * b0 + a0 * b1
          L   == a0 * b0 + (mid % 4096) * 4096
          H   == a1 * b1 + (mid \div 4096) + (L \div 16777216)
          Lr  == L % 16777216
      IN  IF H >= 8388608
          THEN \* 48-bit product, keep H, drop 24 bits
               LET up == Lr > 8388608 \/ (Lr = 8388608 /\ H % 2 = 1)
                   q2 == IF up THEN H + 1 ELSE H
               IN  IF q2 = 16777216
                   THEN [m |-> 8388608, e |-> a.e + b.e + 25]
                   ELSE [m |-> q2, e |-> a.e + b.e + 24]
          ELSE \* 47-bit product, keep 2H + top bit of Lr, drop 23 bits
               LET q  == 2 * H + (Lr \div 8388608)
                   r  == Lr % 8388608
                   up == r > 4194304 \/ (r = 4194304 /\ q % 2 = 1)
                   q2 == IF up THEN q + 1 ELSE q
               IN  IF q2 = 16777216
                   THEN [m |-> 8388608, e |-> a.e + b.e + 24]
                   ELSE [m |-> q2, e |-> a.e + b.e + 23]

RECURSIVE OddPart(_)
OddPart(n) == IF n % 2 = 0 THEN OddPart(n \div 2) ELSE n

RECURSIVE TwoExp(_)
TwoExp(n) == IF n % 2 = 0 THEN 1 + TwoExp(n \div 2) ELSE 0

RECURSIVE DivShift(_, _, _)
\* least k with n * 2^k >= d * 2^25
DivShift(n, d, k) == IF n * Pow2(k) >= d * 33554432 THEN k ELSE DivShift(n, d, k + 1)

\* a / b for operands whose odd parts are below 32 (sample counts)
F32Div(a, b) ==
    IF IsNaN(a) \/ IsNaN(b) \/ b.m = 0 THEN F32NaN
    ELSE IF a.m = 0 THEN F32Zero
    ELSE
      LET n  == OddPart(a.m)
          d  == OddPart(b.m)
          ex == (a.e + TwoExp(a.m)) - (b.e + TwoExp(b.m))
          k  == DivShift(n, d, 0)
          q  == (n * Pow2(k)) \div d
          r  == (n * Pow2(k)) % d
          G  == IF r # 0 /\ q % 2 = 0 THEN q + 1 ELSE q
      IN  F32Round(G, 2, ex - k)


F32One == F32FromInt(1)

RECURSIVE LongDiv(_, _, _, _)
\* `bits` more quotient bits of rem / d by shift and subtract, rem < d
LongDiv(rem, d, bits, q) ==
    IF bits = 0 THEN <<q, rem>>
    ELSE IF 2 * rem >= d THEN LongDiv(2 * rem - d, d, bits - 1, 2 * q + 1)
    ELSE LongDiv(2 * rem, d, bits - 1, 2 * q)

\* a / b for any finite operands: 26 quotient bits and a sticky bit
F32DivAny(a, b) ==
    IF IsNaN(a) \/ IsNaN(b) \/ b.m = 0 THEN F32NaN
    ELSE IF a.m = 0 THEN F32Zero
    ELSE
      LET lt == a.m < b.m
          n  == IF lt THEN 2 * a.m ELSE a.m
          ex == a.e - b.e - (IF lt THEN 1 ELSE 0)
          qr == LongDiv(n - b.m, b.m, 25, 1)
          G  == IF qr[2] # 0 /\ qr[1] % 2 = 0 THEN qr[1] + 1 ELSE qr[1]
      IN  F32Round(G, 2, ex - 25)

\* a < b; false when an operand is NaN
F32Less(a, b) ==
    IF IsNaN(a) \/ IsNaN(b) THEN FALSE
    ELSE IF b.m = 0 THEN FALSE
    ELSE IF a.m = 0 THEN TRUE
    ELSE a.e < b.e \/ (a.e = b.e /\ a.m < b.m)

\* f32::min: the other operand when one is NaN
F32Min(a, b) ==
    IF IsNaN(a) THEN b
    ELSE IF IsNaN(b) THEN a
    ELSE IF F32Less(b, a) THEN b ELSE a

(***************************************************************************)
(* Bounds of the model.                                                    *)
(***************************************************************************)
\* blocks in the one row of blocks of the image: width / BLOCK_WIDTH
GridWidth == 2

\* number of pool threads (ThreadPool::thread_count)
NumWorkers == 2

\* pixels of a block walked by the pixel loop of a tile job
BlockPixels == 2

\* samples per pixel after which no further sample is started
MaxSpp == 2

\* UI events handled in one run
MaxUiEvents == 1

\* samples fed to the accumulator in SpecAverage
MaxSamples == 3

\* jobs scheduled on the pool in SpecPool
MaxJobs == 3

\* surfaces met by the ray in SpecHit, and the largest distance of one
MaxSurfaces == 2

MaxPos == 2

\* largest max_scatter_depth of the settings in SpecTrace
MaxDepth == 3

\* camera edits and exports made in SpecExport
MaxExportEvents == 3

\* Vector3 values in the buffer flattened in SpecFlatten
MaxVectors == 2

(***************************************************************************)
(* Program constants.                                                      *)
(***************************************************************************)
BLOCK_WIDTH == 32

BLOCK_HEIGHT == 32

UPDATE_COUNT == 2048

(***************************************************************************)
(* math.rs: Average                                                        *)
(***************************************************************************)
AverageDefault == [spp |-> 0, prev_pass_add |-> F32Zero, this_pass_add |-> F32Zero]

Average_reset(a) == [a EXCEPT !.spp = 0]

Average_next_frame(a) ==
    [spp           |-> a.spp + 1,
     prev_pass_add |-> F32Div(F32FromInt(a.spp), F32FromInt(a.spp + 1)),
     this_pass_add |-> F32Div(F32One, F32FromInt(a.spp + 1))]

\* the weights dropped: new + prev
Average_average_unweighted(a, prev, new) == F32Add(new, prev)

Average_average(a, prev, new) ==
    LET prev_value == F32Mul(prev, IF a.spp = 1 THEN F32Zero ELSE a.prev_pass_add)
    IN  F32Add(F32Mul(new, a.this_pass_add), prev_value)

(***************************************************************************)
(* Values of the abstract inputs of the viewer.                            *)
(***************************************************************************)
\* camera controller poses; 0 is the pose CameraController::reset installs
CameraValues == {0, 1}

ResetCamera == 0

\* tracer settings as edited in the Settings menu
SettingsValues == {0, 1}

\* Scene::empty()
EmptyScene == [id |-> 0, wrap |-> "Repeat"]

\* scenes Scene::load can return: samplers keep the wrap mode of the asset
LoadableScenes == {[id |-> 1, wrap |-> "Repeat"], [id |-> 2, wrap |-> "Clamp"]}

\* what the channel of a loader thread holds: nothing yet, Err(_) or Ok(scene)
NoResult == [status |-> "none", scene |-> EmptyScene]

LoadResults ==
    {[status |-> "Err", scene |-> EmptyScene]}
        \cup {[status |-> "Ok", scene |-> sc] : sc \in LoadableScenes}

\* radiance returned by pathtracer::Tracer::trace for a pixel
Radiance == {F32One}

Workers == 1..NumWorkers

NoCapture == -1


(***************************************************************************)
(* State.                                                                  *)
(*   tr       the viewer Tracer struct (tracer.rs:48-79) with the job      *)
(*            channel of its pool (queue) and the mailbox (rx)             *)
(*   workers  the pool threads: position in the worker loop, job, block    *)
(*   ui_events           UI events handled so far                          *)
(*   avg, acc            an Average and one pixel merged through it        *)
(*   fed, prev0          samples fed to the pixel since the last reset and *)
(*                       the content of the pixel at that reset            *)
(*   pool_queue          the channel of a ThreadPool (threadpool.rs)       *)
(*   pool_workers        its threads: position in the loop, job            *)
(*   pool_mutex          holder of the Mutex around the receiver, 0: free  *)
(*   pool_runs           for each job the workers that entered its body    *)
(*   pool_main           the owner of the pool: jobs scheduled, drop       *)
(*   img                 width and height given to Tracer::new             *)
(*   tile_queue, tile_rx tile jobs of one sample not yet run, and the      *)
(*                       origins of the blocks sent to the mailbox         *)
(*   tile_merged         origins of the blocks merged in this sample       *)
(*   tile_pending        pending.0                                         *)
(*   hit                 a call of Scene::hit: arguments, locals of the    *)
(*                       loop, position, result                            *)
(*   isect               a call of ray_triangle_intersection: arguments    *)
(*                       and result                                        *)
(*   trace               a call of pathtracer::Tracer::trace: settings,    *)
(*                       scene, locals of the bounce loop, result          *)
(*   nee                 a call of Tracer::sample_light: light, shading    *)
(*                       point, position in trace_light, result            *)
(*   flat                a VectorWrapper being collected: data, index,     *)
(*                       sub_index and the floats yielded so far           *)
(*   conv                a call of from_u16: arguments and result          *)
(***************************************************************************)
VARIABLES tr, workers, ui_events, avg, acc, fed, prev0,
          pool_queue, pool_workers, pool_mutex, pool_runs, pool_main,
          img, tile_queue, tile_rx, tile_merged, tile_pending, hit,
          isect, trace, nee, flat, conv

vars == <<tr, workers, ui_events, avg, acc, fed, prev0,
          pool_queue, pool_workers, pool_mutex, pool_runs, pool_main,
          img, tile_queue, tile_rx, tile_merged, tile_pending, hit,
          isect, trace, nee, flat, conv>>

viewerVars == <<tr, workers, ui_events>>

averageVars == <<avg, acc, fed, prev0>>

poolVars == <<pool_queue, pool_workers, pool_mutex, pool_runs, pool_main>>

libVars == <<isect, trace, nee>>

convVars == <<flat, conv>>

tileVars == <<img, tile_queue, tile_rx, tile_merged, tile_pending>>

(***************************************************************************)
(* tracer.rs: tile jobs                                                    *)
(***************************************************************************)
\* the closure built by spawn_threads for tile (grid_x, grid_y); sample and
\* snap record the sample counter and the shared tracer at the time of the call
RadianceJob(t, grid_x, grid_y) ==
    [kind |-> "Output", grid_x |-> grid_x, grid_y |-> grid_y,
     camera |-> NoCapture, settings |-> NoCapture,
     sample |-> t.average.spp, snap |-> t.tracer]

\* the closure built by spawn_threads_albedo_normals: captures the simple
\* camera of the controller and t_min, t_max of the UI settings
AuxJob(t, grid_x, grid_y, normals) ==
    [kind |-> IF normals THEN "Normals" ELSE "Albedo",
     grid_x |-> grid_x, grid_y |-> grid_y,
     camera |-> t.camera, settings |-> t.tracer_settings,
     sample |-> t.average.spp, snap |-> t.tracer]

\* jobs in the order of the two nested loops: grid_y outer, grid_x inner
spawn_threads(t, grid_width, grid_height) ==
    [t EXCEPT !.queue = @ \o
        [i \in 1..(grid_width * grid_height) |->
            RadianceJob(t, (i - 1) % grid_width, (i - 1) \div grid_width)]]

spawn_threads_albedo_normals(t, grid_width, grid_height, normals) ==
    [t EXCEPT !.queue = @ \o
        [i \in 1..(grid_width * grid_height) |->
            AuxJob(t, (i - 1) % grid_width, (i - 1) \div grid_width, normals)]]

\* the value returned by both: one per loop iteration
spawned(grid_width, grid_height) == grid_width * grid_height

(***************************************************************************)
(* tracer.rs: reset, cancel, scene                                         *)
(***************************************************************************)
set_cancel(t, value) == [t EXCEPT !.cancel = value]

\* the new camera and settings installed at once
reset_tracing_installing(t) ==
    set_cancel([t EXCEPT !.reset_pending = FALSE, !.reset = TRUE,
                         !.tracer.camera = t.camera,
                         !.tracer.settings = t.tracer_settings], TRUE)

reset_tracing(t) ==
    set_cancel([t EXCEPT !.reset_pending = FALSE, !.reset = TRUE], TRUE)

apply_reset_pending(t) == IF t.reset_pending THEN reset_tracing(t) ELSE t

begin_tracing(t) ==
    [set_cancel([t EXCEPT !.reset = FALSE], FALSE)
        EXCEPT !.average = Average_reset(@)]

set_scene(t, scene) ==
    [reset_tracing([t EXCEPT !.tracer.scene = scene])
        EXCEPT !.has_albedo = FALSE, !.has_normals = FALSE, !.preview = scene.id]

\* load_scene: the loader thread is started and the polling closure queued
load_scene(t) ==
    [t EXCEPT !.ui_state = "Loading", !.pending_action = Append(@, "load")]

\* the closure queued by load_scene; poll is what rx.try_iter().next() finds
\* at this call: nothing yet, or the (handler, result) the loader sent;
\* load_errors counts the show_error dialogs; <<tracer, returned bool>>
\* the result is not matched: set_scene is called with whatever was sent
load_action_unmatched(t, poll) ==
    IF poll.status = "none" THEN <<t, FALSE>>
    ELSE <<[set_scene(t, poll.scene) EXCEPT !.ui_state = "Rendering"], TRUE>>

load_action(t, poll) ==
    IF poll.status = "none" THEN <<t, FALSE>>
    ELSE LET t1 == IF poll.status = "Err"
                   THEN [t EXCEPT !.load_errors = @ + 1]
                   ELSE set_scene(t, poll.scene)
         IN  <<[t1 EXCEPT !.ui_state = "Rendering"], TRUE>>

\* origins of the blocks a width x height texture is kept in
TexOrigins(width, height) ==
    {<<gx * BLOCK_WIDTH, gy * BLOCK_HEIGHT>> :
        gx \in 0..((width \div BLOCK_WIDTH) - 1),
        gy \in 0..((height \div BLOCK_HEIGHT) - 1)}

ZeroBlock == [i \in 1..BlockPixels |-> F32Zero]

\* TextureData::new
TextureData_new(width, height) == [o \in TexOrigins(width, height) |-> ZeroBlock]

\* TextureData::clear
texture_clear(t) == [o \in DOMAIN t.texture |-> ZeroBlock]

(***************************************************************************)
(* tracer.rs: export_image, import_image                                   *)
(***************************************************************************)
\* albedo_of, normals_of and texture_of record the camera and the scene the
\* jobs of the last pass into each buffer were built with, exported what the
\* three files written by the last export hold
export_image(t) ==
    LET gw == t.width \div BLOCK_WIDTH
        gh == t.height \div BLOCK_HEIGHT
        aux == [camera |-> t.camera, scene |-> t.tracer.scene.id]
    IN  IF ~t.has_albedo
        THEN <<[spawn_threads_albedo_normals(t, gw, gh, FALSE)
                  EXCEPT !.pending = <<spawned(gw, gh), spawned(gw, gh)>>,
                         !.tracing_output = "Albedo",
                         !.has_albedo = TRUE,
                         !.albedo_of = aux], FALSE>>
        ELSE IF ~t.has_normals
        THEN <<[spawn_threads_albedo_normals(t, gw, gh, TRUE)
                  EXCEPT !.pending = <<spawned(gw, gh), spawned(gw, gh)>>,
                         !.tracing_output = "Normals",
                         !.has_normals = TRUE,
                         !.normals_of = aux], FALSE>>
        ELSE <<[t EXCEPT !.tracing_output = "Output",
                         !.exported = [written |-> TRUE, spp |-> t.average.spp,
                                       radiance |-> t.texture_of,
                                       albedo |-> t.albedo_of,
                                       normals |-> t.normals_of]], TRUE>>

import_image(t) == <<t, TRUE>>

run_action(t, action, poll) ==
    IF action = "load" THEN load_action(t, poll)
    ELSE IF action = "import" THEN import_image(t)
    ELSE export_image(t)

\* an action that returned false is queued again at the back
handle_pending_action_requeued(t, poll) ==
    IF t.pending_action = <<>> THEN t
    ELSE LET action == Head(t.pending_action)
             popped == [t EXCEPT !.pending_action = Tail(@)]
             res    == run_action(popped, action, poll)
         IN  IF res[2] THEN res[1]
             ELSE [res[1] EXCEPT !.pending_action = Append(@, action)]

handle_pending_action(t, poll) ==
    IF t.pending_action = <<>> THEN t
    ELSE LET action == Head(t.pending_action)
             popped == [t EXCEPT !.pending_action = Tail(@)]
             res    == run_action(popped, action, poll)
         IN  IF res[2] THEN res[1]
             ELSE [res[1] EXCEPT !.pending_action = <<action>> \o @]

(***************************************************************************)
(* tracer.rs: start_new_sample, update_raytracing_texture, update          *)
(***************************************************************************)
start_new_sample(t) ==
    LET t1 == IF t.reset
              THEN LET b == begin_tracing(t)
                   IN  [b EXCEPT !.texture = texture_clear(b),
                                 !.tracer.camera = b.camera,
                                 !.tracer.settings = b.tracer_settings]
              ELSE t
        t2 == [t1 EXCEPT !.average = Average_next_frame(@)]
        gw == t2.width \div BLOCK_WIDTH
        gh == t2.height \div BLOCK_HEIGHT
    IN  [spawn_threads(t2, gw, gh)
            EXCEPT !.pending = <<spawned(gw, gh), spawned(gw, gh)>>,
                   !.texture_of = [camera |-> t2.tracer.camera,
                                   scene |-> t2.tracer.scene.id]]

\* the block merged without counting it
merge_block_uncounted(t, msg) ==
    LET o == <<msg.x, msg.y>>
    IN  IF t.tracing_output = "Albedo"
        THEN [t EXCEPT !.albedo[o] = msg.block]
        ELSE IF t.tracing_output = "Normals"
        THEN [t EXCEPT !.normals[o] = msg.block]
        ELSE [t EXCEPT !.texture[o] =
                [i \in 1..BlockPixels |->
                    Average_average(t.average, t.texture[o][i], msg.block[i])]]

\* the body of the loop for one received (x, y, block)
merge_block(t, msg) ==
    LET o == <<msg.x, msg.y>>
        t1 == IF t.tracing_output = "Albedo"
              THEN [t EXCEPT !.albedo[o] = msg.block]
              ELSE IF t.tracing_output = "Normals"
              THEN [t EXCEPT !.normals[o] = msg.block]
              ELSE [t EXCEPT !.texture[o] =
                      [i \in 1..BlockPixels |->
                          Average_average(t.average, t.texture[o][i], msg.block[i])]]
    IN  [t1 EXCEPT !.pending = <<@[1] - 1, @[2]>>]

RECURSIVE merge_blocks(_, _)
merge_blocks(t, msgs) ==
    IF msgs = <<>> THEN t ELSE merge_blocks(merge_block(t, Head(msgs)), Tail(msgs))

Min(a, b) == IF a <= b THEN a ELSE b

\* rx.try_iter().take(UPDATE_COUNT): what the mailbox holds, at most UPDATE_COUNT
update_raytracing_texture(t) ==
    LET n == Min(Len(t.rx), UPDATE_COUNT)
    IN  merge_blocks([t EXCEPT !.rx = SubSeq(@, n + 1, Len(@))], SubSeq(t.rx, 1, n))

\* the pending test dropped
update_guard_no_pending(t) == t.ui_state # "Moving"

update_guard(t) == t.pending[1] = 0 /\ t.ui_state # "Moving"

update(t, poll) ==
    IF update_guard(t)
    THEN LET t1 == handle_pending_action(t, poll)
         IN  IF t1.pending_action = <<>> THEN start_new_sample(t1) ELSE t1
    ELSE update_raytracing_texture(t)


(***************************************************************************)
(* Initial state: Tracer::new followed by the load_scene call of main.     *)
(***************************************************************************)
NoJob == [kind |-> "none"]

IdleWorker == [pc |-> "idle", job |-> NoJob, block |-> <<>>, loads |-> <<>>]

\* no pass traced into a buffer yet
NoView == [camera |-> NoCapture, scene |-> NoCapture]

\* Tracer::new; c and s are what CAMERA_JSON and SETTINGS_JSON hold
TracerNew(width, height, c, s) ==
    [width |-> width, height |-> height,
     pending |-> <<0, 0>>, average |-> AverageDefault,
     reset_pending |-> FALSE, reset |-> FALSE, cancel |-> FALSE,
     camera |-> c, tracer_settings |-> s,
     tracer |-> [camera |-> c, settings |-> s, scene |-> EmptyScene],
     texture |-> TextureData_new(width, height),
     albedo |-> TextureData_new(width, height),
     normals |-> TextureData_new(width, height),
     has_albedo |-> FALSE, has_normals |-> FALSE, tracing_output |-> "Output",
     rx |-> <<>>, queue |-> <<>>, ui_state |-> "Rendering", preview |-> 0,
     pending_action |-> <<>>, load_errors |-> 0,
     texture_of |-> NoView, albedo_of |-> NoView, normals_of |-> NoView,
     exported |-> [written |-> FALSE, spp |-> 0, radiance |-> NoView,
                   albedo |-> NoView, normals |-> NoView]]

InitAverage ==
    /\ avg = AverageDefault
    /\ acc = F32Zero
    /\ fed = <<>>
    /\ prev0 = F32Zero

\* the viewer before its first frame, as the other specifications leave it
InitParkedViewer ==
    /\ tr = load_scene(TracerNew(GridWidth * BLOCK_WIDTH, BLOCK_HEIGHT, ResetCamera,
                                 CHOOSE s \in SettingsValues : TRUE))
    /\ workers = [w \in Workers |-> IdleWorker]
    /\ ui_events = 0

InitViewer ==
    /\ \E c \in CameraValues, s \in SettingsValues :
          tr = load_scene(TracerNew(GridWidth * BLOCK_WIDTH, BLOCK_HEIGHT, c, s))
    /\ workers = [w \in Workers |-> IdleWorker]
    /\ ui_events = 0

InitPool ==
    /\ pool_queue = <<>>
    /\ pool_workers = [w \in Workers |-> [pc |-> "idle", job |-> 0]]
    /\ pool_mutex = 0
    /\ pool_runs = [j \in 1..MaxJobs |-> <<>>]
    /\ pool_main = [pc |-> "open", scheduled |-> 0, joined |-> 0]

InitTiles ==
    /\ img = [width |-> GridWidth * BLOCK_WIDTH, height |-> BLOCK_HEIGHT]
    /\ tile_queue = <<>>
    /\ tile_rx = <<>>
    /\ tile_merged = <<>>
    /\ tile_pending = 0

\* Scene::empty(), no call made
InitHit ==
    hit = [scene |-> <<>>, t_min |-> 1, t_max |-> 0, pc |-> "done",
           current_origin |-> 0, current_t_max |-> 0,
           result |-> [index |-> 0, t |-> 0, position |-> 0], repeats |-> FALSE,
           skipped |-> {}, travelled |-> 0]

\* no call of the library functions in progress
InitLib ==
    /\ isect = [pc |-> "done"]
    /\ trace = [pc |-> "done"]
    /\ nee = [pc |-> "done"]

\* no conversion in progress
InitConv ==
    /\ flat = [pc |-> "done"]
    /\ conv = [pc |-> "done"]

Init == InitViewer /\ InitConv /\ InitAverage /\ InitPool /\ InitTiles /\ InitHit /\ InitLib

(***************************************************************************)
(* The pool threads of the viewer: threadpool.rs Worker::new running the   *)
(* work closures of tracer.rs.                                             *)
(***************************************************************************)
\* receiver.lock().unwrap().recv().unwrap() as one step: the guard lives for
\* that statement only (SpecPool models the lock on its own)
WorkerRecv(w) ==
    /\ workers[w].pc = "idle"
    /\ tr.queue # <<>>
    /\ tr' = [tr EXCEPT !.queue = Tail(@)]
    /\ workers' = [workers EXCEPT ![w] =
            [pc |-> "run", job |-> Head(tr.queue), block |-> <<>>, loads |-> <<>>]]
    /\ UNCHANGED ui_events

\* Sampler::sample asserts wrap_s and wrap_t to be Repeat
CanPanic(scene) == scene.wrap # "Repeat"

\* primary-hit shader of the auxiliary passes: zero on a miss, else the
\* albedo or normal seen through the captured camera in the current scene
AuxColor(scene, camera, kind) ==
    IF scene.id = 0 THEN F32Zero
    ELSE F32FromInt(scene.id + 4 * camera + (IF kind = "Normals" THEN 8 ELSE 0))

TraceOutcomes(t, job) ==
    IF job.kind = "Output" THEN Radiance
    ELSE {AuxColor(t.tracer.scene, job.camera, job.kind)}

\* the flag ignored: the pixel is always traced
work_pixel_uncancellable(cancel_load, traced_color) ==
    [color |-> traced_color, cancel |-> cancel_load, traced |-> TRUE]

\* match thread_cancel.load(Acquire) { true => zero, false => trace }
work_pixel(cancel_load, traced_color) ==
    IF cancel_load
    THEN [color |-> F32Zero, cancel |-> TRUE, traced |-> FALSE]
    ELSE [color |-> traced_color, cancel |-> FALSE, traced |-> TRUE]

\* one iteration of the pixel loop of a work closure
WorkerPixel(w) ==
    /\ workers[w].pc = "run"
    /\ Len(workers[w].block) < BlockPixels
    /\ \E v \in TraceOutcomes(tr, workers[w].job) :
          LET r == work_pixel(tr.cancel, v)
          IN  workers' = [workers EXCEPT
                  ![w].block = Append(@, r.color),
                  ![w].loads = Append(@, [cancel |-> r.cancel, traced |-> r.traced,
                                           tracer |-> tr.tracer])]
    /\ UNCHANGED <<tr, ui_events>>

\* the traced pixel samples a texture whose wrap mode is not Repeat: the
\* assertion fails, the pool thread unwinds and its job sends nothing
WorkerPanic(w) ==
    /\ workers[w].pc = "run"
    /\ Len(workers[w].block) < BlockPixels
    /\ ~tr.cancel
    /\ CanPanic(tr.tracer.scene)
    /\ workers' = [workers EXCEPT ![w].pc = "dead"]
    /\ UNCHANGED <<tr, ui_events>>

\* thread_tx.send((grid_x * BLOCK_WIDTH, grid_y * BLOCK_HEIGHT, block))
WorkerSend(w) ==
    /\ workers[w].pc = "run"
    /\ Len(workers[w].block) = BlockPixels
    /\ tr' = [tr EXCEPT !.rx = Append(@,
                [x |-> workers[w].job.grid_x * BLOCK_WIDTH,
                 y |-> workers[w].job.grid_y * BLOCK_HEIGHT,
                 block |-> workers[w].block,
                 kind |-> workers[w].job.kind,
                 sample |-> workers[w].job.sample])]
    /\ workers' = [workers EXCEPT ![w] = IdleWorker]
    /\ UNCHANGED ui_events

(***************************************************************************)
(* viewer.rs, Event::RedrawRequested: one frame is Tracer::update_ui, here *)
(* with at most one input acting on the tracer (t is the tracer it leaves), *)
(* followed by Tracer::update. poll is what rx.try_iter().next() of a      *)
(* queued load closure finds during this frame (Polls: it is read only by  *)
(* that closure, when update runs the head of the queue).                  *)
(***************************************************************************)
Polls(t) ==
    IF update_guard(t) /\ t.pending_action # <<>> /\ Head(t.pending_action) = "load"
    THEN {NoResult} \cup LoadResults
    ELSE {NoResult}

Frame(t) ==
    /\ \E poll \in Polls(t) :
          LET u == update(t, poll)
          IN  /\ u.average.spp <= MaxSpp
              /\ tr' = u
    /\ UNCHANGED workers

\* a frame without input
Update == Frame(tr) /\ UNCHANGED ui_events

(***************************************************************************)
(* tracer/ui.rs: the handlers run by Tracer::update_ui.                    *)
(***************************************************************************)
add_pending_action(t, action) == [t EXCEPT !.pending_action = Append(@, action)]

\* a frame whose input is a command (drag, key, menu item)
UiEvent(t) ==
    /\ ui_events < MaxUiEvents
    /\ ui_events' = ui_events + 1
    /\ Frame(t)

\* update_mouse, Rendering with the left button down
MouseDown ==
    /\ tr.ui_state = "Rendering"
    /\ Frame([tr EXCEPT !.ui_state = "Moving"])
    /\ UNCHANGED ui_events

\* update_mouse, Moving with the button down and a mouse delta
MouseDrag ==
    /\ tr.ui_state = "Moving"
    /\ \E c \in CameraValues \ {tr.camera} :
          UiEvent([tr EXCEPT !.reset_pending = TRUE, !.camera = c])

\* update_mouse, Moving with the button released
MouseUp ==
    /\ tr.ui_state = "Moving"
    /\ Frame(apply_reset_pending([tr EXCEPT !.ui_state = "Rendering"]))
    /\ UNCHANGED ui_events

\* update_mouse, right button released over a surface: focus distance picked
FocusPick ==
    /\ tr.tracer.scene.id # 0
    /\ \E c \in CameraValues \ {tr.camera} :
          UiEvent(reset_tracing([tr EXCEPT !.camera = c]))

\* update_keyboard, a movement key held while Moving
KeyMove ==
    /\ tr.ui_state = "Moving"
    /\ \E c \in CameraValues \ {tr.camera} :
          UiEvent([tr EXCEPT !.camera = c, !.reset_pending = TRUE])

\* update_keyboard key 0x2D and menu_camera "Load", camera.load returning Ok
CameraLoad ==
    \E c \in CameraValues : UiEvent(reset_tracing([tr EXCEPT !.camera = c]))

\* menu_camera "Reset"
CameraReset == UiEvent([tr EXCEPT !.camera = ResetCamera])

\* menu_camera sliders and radio buttons, modified
CameraModify ==
    \E c \in CameraValues \ {tr.camera} : UiEvent(reset_tracing([tr EXCEPT !.camera = c]))

\* menu_settings, modified
SettingsModify ==
    \E s \in SettingsValues \ {tr.tracer_settings} :
        UiEvent(reset_tracing([tr EXCEPT !.tracer_settings = s]))

\* menu_file "Load scene..." with a path chosen
MenuLoadScene == UiEvent(set_cancel(load_scene(tr), TRUE))

\* menu_file "Import..." with a path chosen
MenuImport == UiEvent(set_cancel(add_pending_action(tr, "import"), TRUE))

\* menu_file "Export..." with a path chosen
MenuExport == UiEvent(add_pending_action(tr, "export"))

NextViewer ==
    \/ Update
    \/ \E w \in Workers : WorkerRecv(w)
    \/ \E w \in Workers : WorkerPixel(w)
    \/ \E w \in Workers : WorkerPanic(w)
    \/ \E w \in Workers : WorkerSend(w)
    \/ MouseDown
    \/ MouseDrag
    \/ MouseUp
    \/ FocusPick
    \/ KeyMove
    \/ CameraLoad
    \/ CameraReset
    \/ CameraModify
    \/ SettingsModify
    \/ MenuLoadScene
    \/ MenuImport
    \/ MenuExport

Next == NextViewer /\ UNCHANGED <<convVars, averageVars, poolVars, tileVars, hit, libVars>>

Spec == Init /\ [][Next]_vars

(***************************************************************************)
(* Properties of the viewer orchestrator (Spec).                           *)
(***************************************************************************)
\* this step ran start_new_sample: only it queues radiance jobs
SampleStarted ==
    /\ Len(tr'.queue) > Len(tr.queue)
    /\ tr'.queue[Len(tr'.queue)].kind = "Output"

\* pool threads inside a work closure
Running == {w \in Workers : workers[w].pc = "run"}

\* tile jobs queued or running and tiles waiting in the mailbox
Outstanding == Len(tr.queue) + Cardinality(Running) + Len(tr.rx)

\* the tiles update_raytracing_texture takes from the mailbox in this step
Merged == SubSeq(tr.rx, 1, Len(tr.rx) - Len(tr'.rx))

C1_Step ==
    /\ tr'.average.spp # tr.average.spp => SampleStarted
    /\ SampleStarted => tr.pending[1] = 0 /\ Outstanding = 0
    /\ \A i \in 1..Len(Merged) :
          Merged[i].kind = "Output" =>
              /\ Merged[i].sample = tr.average.spp
              /\ tr'.average.spp = tr.average.spp

\* C1: the sample counter moves only in a step that starts a sample, such a
\* step is taken only with pending.0 = 0 and no tile queued, running or in
\* the mailbox, and every radiance tile merged carries the sample number the
\* counter has when it is merged.
C1_CounterAdvancesWhenDrained == [][C1_Step]_vars

\* the second sample is running and part of its tiles are merged
C1_Witness ==
    /\ tr.average.spp = 2
    /\ tr.pending[1] > 0
    /\ tr.pending[1] < tr.pending[2]

C2_Step ==
    SampleStarted /\ (tr.cancel \/ tr'.cancel) =>
        /\ tr'.average.spp = 1
        /\ tr'.texture = TextureData_new(tr.width, tr.height)

\* C2 as claimed: a sample started while the cancellation flag is set is
\* sample 1 and is merged into an all-zero accumulation buffer.
C2_CancelResetsAverage == [][C2_Step]_vars

\* every job and every pixel traced so far saw the shared tracer as it is
C3_Snapshot ==
    /\ \A i \in 1..Len(tr.queue) : tr.queue[i].snap = tr.tracer
    /\ \A w \in Workers :
          workers[w].pc \in {"run", "dead"} =>
              /\ workers[w].job.snap = tr.tracer
              /\ \A i \in 1..Len(workers[w].loads) :
                    workers[w].loads[i].tracer = workers[w].job.snap

C3_Step ==
    /\ tr'.tracer # tr.tracer =>
          tr.pending[1] = 0 /\ tr.queue = <<>> /\ Running = {}
    /\ C3_Snapshot'

\* C3: camera, settings and scene of the shared tracer change only in a step
\* taken with pending.0 = 0 and no job queued or running, and every pixel of
\* every job reads the tracer state installed when the job was enqueued.
C3_TracerWrittenWhenIdle == [][C3_Step]_vars

\* a pixel has been traced in a loaded scene installed by set_scene
C3_Witness ==
    \E w \in Workers :
        /\ workers[w].pc = "run"
        /\ workers[w].loads # <<>>
        /\ workers[w].job.snap.scene.id # 0
        /\ workers[w].loads[1].traced

C4_Step ==
    SampleStarted =>
        /\ tr'.tracer.camera = tr'.camera
        /\ tr'.tracer.settings = tr'.tracer_settings

\* C4 as claimed: a sample starts with the camera of the controller and the
\* settings of the UI installed in the shared tracer.
C4_SampleUsesCurrentCamera == [][C4_Step]_vars

\* C5 as claimed: every enqueued job sends its one message, so the tiles not
\* yet merged are the jobs queued or running and the messages in the mailbox.
C5_EveryJobSendsOneTile == tr.pending[1] = Outstanding

\* C6: one load of the flag per pixel of the block; a pixel whose load
\* returned true is (0,0,0) and was not traced, a pixel whose load returned
\* false was traced.
C6_CancelledPixelIsBlack ==
    \A w \in Workers :
        /\ Len(workers[w].loads) = Len(workers[w].block)
        /\ \A i \in 1..Len(workers[w].loads) :
              IF workers[w].loads[i].cancel
              THEN ~workers[w].loads[i].traced /\ workers[w].block[i] = F32Zero
              ELSE workers[w].loads[i].traced

\* a radiance block with a traced pixel followed by a cancelled one
C6_Witness ==
    \E w \in Workers :
        /\ workers[w].job.kind = "Output"
        /\ \E i, j \in 1..Len(workers[w].loads) :
              /\ i < j
              /\ workers[w].loads[i].traced
              /\ workers[w].loads[j].cancel
              /\ workers[w].block[j] = F32Zero

C15_Step ==
    /\ tr'.load_errors # tr.load_errors =>
          /\ tr'.load_errors = tr.load_errors + 1
          /\ tr'.tracer.scene = tr.tracer.scene
          /\ tr'.preview = tr.preview
          /\ tr'.ui_state = "Rendering"
    /\ (tr'.tracer.scene # tr.tracer.scene \/ tr'.preview # tr.preview) =>
          /\ tr'.load_errors = tr.load_errors
          /\ tr'.tracer.scene \in LoadableScenes
          /\ tr'.preview = tr'.tracer.scene.id

\* C15: a frame in which the load closure finds Err(_) reports the error and
\* leaves the scene of the shared tracer and the preview as they were; the
\* scene and the preview change only in a frame that reports no error, and
\* then to a scene Scene::load returned.
C15_FailedLoadKeepsScene == [][C15_Step]_vars

\* a load has failed while a loaded scene is live
C15_Witness ==
    /\ tr.load_errors > 0
    /\ tr.tracer.scene \in LoadableScenes
    /\ tr.preview = tr.tracer.scene.id

\* C16 as claimed: no tile job of a scene the loader accepted panics, so no
\* pool thread is ever lost with its tile undelivered.
C16_NoJobPanics == \A w \in Workers : workers[w].pc # "dead"

\* a step in which spawn_threads or spawn_threads_albedo_normals ran
JobsEnqueued == Len(tr'.queue) > Len(tr.queue)

C23_Step == JobsEnqueued => ~tr'.cancel

\* C23 as claimed: tile jobs of a radiance sample or of an albedo or normals
\* pass are enqueued only while the cancellation flag is false, so no pass is
\* rendered entirely as cancelled black pixels.
C23_EnqueuedOnlyUncancelled == [][C23_Step]_vars

\* jobs taken by a pool thread that panicked: never sent, never merged
Lost == {w \in Workers : workers[w].pc = "dead"}

C24_Counts ==
    /\ tr.pending[1] = Outstanding + Cardinality(Lost)
    /\ 0 <= tr.pending[1]
    /\ tr.pending[1] <= tr.pending[2]

C24_Step ==
    /\ JobsEnqueued => tr.pending[1] = 0
    /\ C24_Counts'

\* C24: pending.0 is the number of tile jobs enqueued and not yet merged,
\* it is never negative and never above pending.1, and jobs are enqueued only
\* in a step taken with pending.0 = 0.
C24_PendingCountsUnmergedJobs == C24_Counts /\ [][C24_Step]_vars

\* one tile of a pass waits in the mailbox while the other is being traced
C24_Witness ==
    /\ tr.pending = <<2, 2>>
    /\ Len(tr.rx) = 1
    /\ Cardinality(Running) = 1

IsPrefix(p, q) == Len(p) <= Len(q) /\ SubSeq(q, 1, Len(p)) = p

\* the head of the queue of pending actions left the queue in this step
HeadCompleted == tr.pending_action # <<>> /\ ~IsPrefix(tr.pending_action, tr'.pending_action)

\* export_image ran in this step and started an auxiliary pass
ExportAttempted ==
    \/ tr'.has_albedo /\ ~tr.has_albedo
    \/ tr'.has_normals /\ ~tr.has_normals

C26_Step ==
    /\ \E k \in {0, 1} :
          /\ k <= Len(tr.pending_action)
          /\ LET rest == SubSeq(tr.pending_action, k + 1, Len(tr.pending_action))
             IN  \/ tr'.pending_action = rest
                 \/ \E a \in {"load", "import", "export"} :
                        tr'.pending_action = Append(rest, a)
    /\ (HeadCompleted \/ ExportAttempted \/ tr'.load_errors # tr.load_errors) =>
          tr.pending[1] = 0 /\ tr'.ui_state # "Moving"
    /\ ExportAttempted =>
          /\ tr'.pending_action # <<>>
          /\ Head(tr'.pending_action) = "export"
          /\ ~(tr'.has_albedo /\ ~tr.has_albedo /\ tr'.has_normals /\ ~tr.has_normals)
    /\ SampleStarted => tr'.pending_action = <<>>

\* C26: pending actions leave the queue from its head, at most one per
\* update and only in an update taken with pending.0 = 0 and the UI not
\* Moving; an export that started an auxiliary pass (returned false) is still
\* the head of the queue after the update, only one pass is started per
\* update, and a radiance sample is started only with the queue empty.
C26_PendingActionsInOrder == [][C26_Step]_vars

\* an export that returned false waits at the head while its albedo pass runs
C26_Witness ==
    /\ tr.pending_action # <<>>
    /\ Head(tr.pending_action) = "export"
    /\ tr.has_albedo
    /\ ~tr.has_normals
    /\ tr.tracing_output = "Albedo"
    /\ tr.pending[1] > 0

(***************************************************************************)
(* The viewer with the inputs an export depends on: the camera edited in   *)
(* the Camera menu and File > Export, MaxExportEvents of them, with the    *)
(* frames and the pool threads of Spec. No texture is sampled with a wrap  *)
(* mode other than Repeat.                                                 *)
(***************************************************************************)
ExportInput(t) ==
    /\ ui_events < MaxExportEvents
    /\ ui_events' = ui_events + 1
    /\ Frame(t)

\* menu_camera sliders and radio buttons, modified
ExportCameraModify ==
    \E c \in CameraValues \ {tr.camera} : ExportInput(reset_tracing([tr EXCEPT !.camera = c]))

\* menu_file "Export..." with a path chosen
ExportMenuExport == ExportInput(add_pending_action(tr, "export"))

NextExport ==
    \/ Update
    \/ \E w \in Workers : WorkerRecv(w)
    \/ \E w \in Workers : WorkerPixel(w)
    \/ \E w \in Workers : WorkerSend(w)
    \/ ExportCameraModify
    \/ ExportMenuExport

SpecExport ==
    /\ Init
    /\ [][NextExport /\ UNCHANGED <<convVars, averageVars, poolVars, tileVars, hit, libVars>>]_vars

\* C27 as claimed: the albedo and normals buffers written by export_image
\* were traced with the scene and the camera the radiance buffer written
\* with them was traced with.
C27_ExportedBuffersSameView ==
    (tr.exported.written /\ tr.exported.spp > 0) =>
        /\ tr.exported.albedo = tr.exported.radiance
        /\ tr.exported.normals = tr.exported.radiance

(***************************************************************************)
(* threadpool.rs on its own: a pool of NumWorkers threads whose owner      *)
(* schedules MaxJobs jobs and then drops it. Job bodies return.            *)
(***************************************************************************)
Work(j) == [kind |-> "Work", job |-> j]

Terminate == [kind |-> "Terminate", job |-> 0]

\* ThreadPool::schedule: sender.send(Task::Work(job))
PoolSchedule ==
    /\ pool_main.pc = "open"
    /\ pool_main.scheduled < MaxJobs
    /\ pool_queue' = Append(pool_queue, Work(pool_main.scheduled + 1))
    /\ pool_main' = [pool_main EXCEPT !.scheduled = @ + 1]
    /\ UNCHANGED <<pool_workers, pool_mutex, pool_runs>>

\* receiver.lock().unwrap()
PoolLock(w) ==
    /\ pool_workers[w].pc = "idle"
    /\ pool_mutex = 0
    /\ pool_mutex' = w
    /\ pool_workers' = [pool_workers EXCEPT ![w].pc = "locked"]
    /\ UNCHANGED <<pool_queue, pool_runs, pool_main>>

\* the task is read and left in the channel
recv_peek(queue) == queue

\* what recv() leaves in the channel
recv(queue) == Tail(queue)

\* .recv().unwrap() under the lock, the guard dropped with the statement,
\* then the match: Work(c) enters c(), Terminate leaves the loop
PoolRecv(w) ==
    /\ pool_workers[w].pc = "locked"
    /\ pool_queue # <<>>
    /\ pool_queue' = recv(pool_queue)
    /\ pool_mutex' = 0
    /\ LET task == Head(pool_queue)
       IN  IF task.kind = "Work"
           THEN /\ pool_workers' = [pool_workers EXCEPT
                                       ![w] = [pc |-> "run", job |-> task.job]]
                /\ pool_runs' = [pool_runs EXCEPT ![task.job] = Append(@, w)]
           ELSE /\ pool_workers' = [pool_workers EXCEPT
                                       ![w] = [pc |-> "exited", job |-> 0]]
                /\ UNCHANGED pool_runs
    /\ UNCHANGED pool_main

\* c() returns: back to the top of the loop
PoolReturn(w) ==
    /\ pool_workers[w].pc = "run"
    /\ pool_workers' = [pool_workers EXCEPT ![w] = [pc |-> "idle", job |-> 0]]
    /\ UNCHANGED <<pool_queue, pool_mutex, pool_runs, pool_main>>

\* a single Terminate for the whole pool
drop_tasks_single == <<Terminate>>

\* for _ in &self.workers { self.sender.send(Task::Terminate) }
drop_tasks == [i \in 1..NumWorkers |-> Terminate]

\* Drop, first loop: one Terminate per worker
PoolDrop ==
    /\ pool_main.pc = "open"
    /\ pool_queue' = pool_queue \o drop_tasks
    /\ pool_main' = [pool_main EXCEPT !.pc = "joining"]
    /\ UNCHANGED <<pool_workers, pool_mutex, pool_runs>>

\* Drop, second loop: thr.join() of the next worker returns
PoolJoin ==
    /\ pool_main.pc = "joining"
    /\ pool_workers[pool_main.joined + 1].pc = "exited"
    /\ pool_main' = [pool_main EXCEPT
            !.joined = @ + 1,
            !.pc = IF pool_main.joined + 1 = NumWorkers THEN "dropped" ELSE "joining"]
    /\ UNCHANGED <<pool_queue, pool_workers, pool_mutex, pool_runs>>

NextPool ==
    \/ PoolSchedule
    \/ \E w \in Workers : PoolLock(w)
    \/ \E w \in Workers : PoolRecv(w)
    \/ \E w \in Workers : PoolReturn(w)
    \/ PoolDrop
    \/ PoolJoin

InitPoolOnly ==
    InitParkedViewer /\ InitConv /\ InitAverage /\ InitPool /\ InitTiles /\ InitHit /\ InitLib

SpecPool ==
    /\ InitPoolOnly
    /\ [][NextPool /\ UNCHANGED <<convVars, viewerVars, averageVars, tileVars, hit, libVars>>]_vars

\* the threads are scheduled fairly: a worker that can take the lock with
\* nobody else competing, receive, or return from its job body does so, and
\* so does the dropping thread whose join can return
PoolWorkerStep(w) == PoolLock(w) \/ PoolRecv(w) \/ PoolReturn(w)

SpecPoolFair ==
    /\ SpecPool
    /\ \A w \in Workers : WF_poolVars(PoolWorkerStep(w))
    /\ WF_poolVars(PoolJoin)

\* job j waits in the channel
Queued(j) == \E i \in 1..Len(pool_queue) : pool_queue[i] = Work(j)

\* C7: a scheduled job is either still in the channel or has been entered
\* once, by one worker, never both and never twice; a job that was not
\* scheduled is never run; the holder of the mutex is at the recv() of its
\* dequeue statement, so no worker inside a job body holds it.
C7_ExactlyOnceMutexOnlyForDequeue ==
    /\ \A j \in 1..MaxJobs :
          IF j <= pool_main.scheduled
          THEN IF Queued(j) THEN pool_runs[j] = <<>> ELSE Len(pool_runs[j]) = 1
          ELSE pool_runs[j] = <<>> /\ ~Queued(j)
    /\ \A w \in Workers :
          /\ pool_mutex = w <=> pool_workers[w].pc = "locked"
          /\ pool_workers[w].pc = "run" => pool_runs[pool_workers[w].job] = <<w>>

\* all the threads of the pool are inside job bodies at once, each its own
C7_Witness ==
    /\ \A w \in Workers : pool_workers[w].pc = "run"
    /\ \A v, w \in Workers : v # w => pool_workers[v].job # pool_workers[w].job
    /\ pool_mutex = 0

Exited == {w \in Workers : pool_workers[w].pc = "exited"}

TerminatesQueued == Cardinality({i \in 1..Len(pool_queue) : pool_queue[i] = Terminate})

C28_Safety ==
    /\ \A i \in 1..Len(pool_queue) : \A k \in (i + 1)..Len(pool_queue) :
          pool_queue[i] = Terminate => pool_queue[k] = Terminate
    /\ Exited # {} => \A j \in 1..MaxJobs : ~Queued(j)
    /\ IF pool_main.pc = "open"
       THEN Exited = {} /\ TerminatesQueued = 0
       ELSE Cardinality(Exited) + TerminatesQueued = NumWorkers
    /\ pool_main.pc = "dropped" =>
          /\ Exited = Workers
          /\ pool_queue = <<>>
          /\ \A j \in 1..pool_main.scheduled : Len(pool_runs[j]) = 1

\* C28: with job bodies that return, dropping the pool terminates: no job
\* waits in the channel behind a Terminate, so every scheduled job has been
\* dequeued when the first worker exits; each worker takes one Terminate and
\* exits; drop returns, and only with every worker exited, the channel empty
\* and every scheduled job run.
C28_DropTerminates ==
    /\ []C28_Safety
    /\ (pool_main.pc = "joining") ~> (pool_main.pc = "dropped")

\* the pool was dropped with every job scheduled and drop has returned
C28_Witness ==
    /\ pool_main.pc = "dropped"
    /\ pool_main.scheduled = MaxJobs

(***************************************************************************)
(* math.rs Average on its own: one pixel of the accumulation buffer merged *)
(* once per sample (tracer.rs:536-541), the counter reset in between with  *)
(* the pixel left as it is.                                                *)
(***************************************************************************)
\* sample values of the pixel
SampleInts == {0, 1, 3, 7}

\* what the pixel holds before the first reset
PrevValues == {F32Zero, F32FromInt(5), F32NaN}

InitAnyPixel ==
    /\ avg = AverageDefault
    /\ acc \in PrevValues
    /\ prev0 = acc
    /\ fed = <<>>

\* next_frame, then the merge of the sample of this pass
FeedSample ==
    /\ Len(fed) < MaxSamples
    /\ \E x \in SampleInts :
          LET a == Average_next_frame(avg)
          IN  /\ avg' = a
              /\ acc' = Average_average(a, acc, F32FromInt(x))
              /\ fed' = Append(fed, x)
    /\ UNCHANGED prev0

\* Average::reset
ResetAverage ==
    /\ fed # <<>>
    /\ avg' = Average_reset(avg)
    /\ fed' = <<>>
    /\ prev0' = acc
    /\ UNCHANGED acc

NextAverage == FeedSample \/ ResetAverage

InitAverageOnly ==
    InitParkedViewer /\ InitConv /\ InitAnyPixel /\ InitPool /\ InitTiles /\ InitHit /\ InitLib

SpecAverage ==
    /\ InitAverageOnly
    /\ [][NextAverage /\ UNCHANGED <<convVars, viewerVars, poolVars, tileVars, hit, libVars>>]_vars

RECURSIVE SumSeq(_)
SumSeq(q) == IF q = <<>> THEN 0 ELSE Head(q) + SumSeq(Tail(q))

\* |a - sum / n| <= k units in the last place of a, for a below 2^24
WithinUlps(a, sum, n, k) ==
    /\ ~IsNaN(a)
    /\ a.e <= 0
    /\ LET d == a.m * n - sum * Pow2(0 - a.e)
       IN  d <= k * n /\ 0 - d <= k * n

Identical(q) == \A i \in 1..Len(q) : q[i] = q[1]

ImageWidths == {32, 40, 64}

ImageHeights == {32, 48, 64}

InitAnyImage ==
    /\ \E w \in ImageWidths, h \in ImageHeights : img = [width |-> w, height |-> h]
    /\ tile_queue = <<>>
    /\ tile_rx = <<>>
    /\ tile_merged = <<>>
    /\ tile_pending = 0

\* start_new_sample: spawn_threads(width / BLOCK_WIDTH, height / BLOCK_HEIGHT)
TilesStart ==
    /\ tile_pending = 0
    /\ LET grid_width  == img.width \div BLOCK_WIDTH
           grid_height == img.height \div BLOCK_HEIGHT
       IN  /\ tile_queue' =
                 [i \in 1..(grid_width * grid_height) |->
                     [grid_x |-> (i - 1) % grid_width, grid_y |-> (i - 1) \div grid_width]]
           /\ tile_pending' = spawned(grid_width, grid_height)
    /\ tile_merged' = <<>>
    /\ UNCHANGED <<img, tile_rx>>

\* a work closure, taken by some pool thread, fills its block and sends it
TileSend ==
    /\ \E i \in 1..Len(tile_queue) :
          /\ tile_rx' = Append(tile_rx, [x |-> tile_queue[i].grid_x * BLOCK_WIDTH,
                                         y |-> tile_queue[i].grid_y * BLOCK_HEIGHT])
          /\ tile_queue' = SubSeq(tile_queue, 1, i - 1)
                              \o SubSeq(tile_queue, i + 1, Len(tile_queue))
    /\ UNCHANGED <<img, tile_merged, tile_pending>>

\* update_raytracing_texture: every block the mailbox holds is merged
TilesMerge ==
    /\ tile_rx # <<>>
    /\ LET n == Min(Len(tile_rx), UPDATE_COUNT)
       IN  /\ tile_merged' = tile_merged \o SubSeq(tile_rx, 1, n)
           /\ tile_rx' = SubSeq(tile_rx, n + 1, Len(tile_rx))
           /\ tile_pending' = tile_pending - n
    /\ UNCHANGED <<img, tile_queue>>

NextTiles == TilesStart \/ TileSend \/ TilesMerge

InitTilesOnly ==
    InitParkedViewer /\ InitConv /\ InitAverage /\ InitPool /\ InitAnyImage /\ InitHit /\ InitLib

SpecTiles ==
    /\ InitTilesOnly
    /\ [][NextTiles /\ UNCHANGED <<convVars, viewerVars, averageVars, poolVars, hit, libVars>>]_vars

\* the merge of block b writes data[index] for
\* index = x + block_x + (y + block_y) * width, block_x and block_y below 32
BlockWrites(b, index) ==
    LET d == index - (b.x + b.y * img.width)
    IN  /\ d >= 0
        /\ d % img.width < BLOCK_WIDTH
        /\ d \div img.width < BLOCK_HEIGHT

\* merges of this sample into pixel (x, y)
MergeCount(x, y) ==
    Cardinality({i \in 1..Len(tile_merged) : BlockWrites(tile_merged[i], x + y * img.width)})

\* the sample has been started and all its blocks are merged
SampleComplete == tile_pending = 0 /\ tile_merged # <<>>

F32Infinity == 1000000

\* materials by alpha mode; for Mask(cutoff) the alpha sampled at the hit uv
\* is below, equal to or above the cutoff
Materials ==
    {[alpha_mode |-> "Opaque", cutoff |-> 0, alpha |-> 1],
     [alpha_mode |-> "Blend", cutoff |-> 0, alpha |-> 0]}
    \cup {[alpha_mode |-> "Mask", cutoff |-> 1, alpha |-> a] : a \in 0..2}

\* Material::discard
discard(material) ==
    CASE material.alpha_mode = "Opaque" -> FALSE
      [] material.alpha_mode = "Mask" -> material.alpha <= material.cutoff
      [] material.alpha_mode = "Blend" -> FALSE

Surfaces == [pos : 0..MaxPos, material : Materials]

RECURSIVE SeqsUpTo(_, _)
SeqsUpTo(S, n) ==
    IF n = 0 THEN {<<>>}
    ELSE LET shorter == SeqsUpTo(S, n - 1)
         IN  shorter \cup {Append(q, x) : q \in {r \in shorter : Len(r) = n - 1}, x \in S}

Scenes == SeqsUpTo(Surfaces, MaxSurfaces)

\* t_min and t_max handed to Scene::hit: the derived Default of
\* TracerSettings and a settings file can hold t_min = 0
TMinValues == {0, 1}

TMaxValues == 0..(MaxPos + 1) \cup {F32Infinity}

\* ray_triangle_intersection of surface i for a ray starting at origin:
\* None when t < t_min || t > t_max
Intersects(scene, i, origin, t_min, t_max) ==
    LET t == scene[i].pos - origin
    IN  ~(t < t_min \/ t > t_max)

\* every accepted intersection replaces the result
closer_any(prev_distance, t) == TRUE

\* Some(tr_int) if prev_distance > tr_int.t
closer(prev_distance, t) == prev_distance > t

\* hit_triangles: the loop over the triangles in the order the k-d trees
\* yield them, from triangle i on with the result so far; 0 is None
RECURSIVE hit_triangles_loop(_, _, _, _, _, _)
hit_triangles_loop(scene, origin, t_min, t_max, i, result) ==
    IF i > Len(scene) THEN result
    ELSE LET prev_distance == IF result = 0 THEN F32Infinity
                              ELSE scene[result].pos - origin
             t == scene[i].pos - origin
         IN  hit_triangles_loop(scene, origin, t_min, t_max, i + 1,
                 IF Intersects(scene, i, origin, t_min, t_max) /\ closer(prev_distance, t)
                 THEN i ELSE result)

hit_triangles(scene, origin, t_min, t_max) ==
    hit_triangles_loop(scene, origin, t_min, t_max, 1, 0)

\* the remaining range left as the caller gave it
t_max_keep(t_max, t) == t_max

\* current_t_max -= hit.t
t_max_sub(t_max, t) == IF t_max = F32Infinity THEN F32Infinity ELSE t_max - t

InitAnyHit ==
    \E scene \in Scenes, t_min \in TMinValues, t_max \in TMaxValues :
        hit = [scene |-> scene, t_min |-> t_min, t_max |-> t_max, pc |-> "loop",
               current_origin |-> 0, current_t_max |-> t_max,
               result |-> [index |-> 0, t |-> 0, position |-> 0], repeats |-> FALSE,
               skipped |-> {}, travelled |-> 0]

HitFound == hit_triangles(hit.scene, hit.current_origin, hit.t_min, hit.current_t_max)

\* Some(hit) if hit.material.discard(hit.uv): restart at the hit position;
\* repeats records that the iteration left current_ray and current_t_max as
\* it found them, skipped the surfaces discarded so far and travelled the sum
\* of their hit.t
HitRestart ==
    /\ hit.pc = "loop"
    /\ HitFound # 0
    /\ discard(hit.scene[HitFound].material)
    /\ LET t == hit.scene[HitFound].pos - hit.current_origin
       IN  hit' = [hit EXCEPT
                      !.current_origin = hit.scene[HitFound].pos,
                      !.current_t_max = t_max_sub(@, t),
                      !.skipped = @ \cup {HitFound},
                      !.travelled = @ + t,
                      !.repeats = (hit.scene[HitFound].pos = hit.current_origin
                                     /\ t_max_sub(hit.current_t_max, t) = hit.current_t_max)]

\* Some(hit) => return Some(hit)
HitReturnSome ==
    /\ hit.pc = "loop"
    /\ HitFound # 0
    /\ ~discard(hit.scene[HitFound].material)
    /\ hit' = [hit EXCEPT
                  !.pc = "done",
                  !.result = [index |-> HitFound,
                              t |-> hit.scene[HitFound].pos - hit.current_origin,
                              position |-> hit.scene[HitFound].pos]]

\* None => return None
HitReturnNone ==
    /\ hit.pc = "loop"
    /\ HitFound = 0
    /\ hit' = [hit EXCEPT !.pc = "done"]

NextHit == HitRestart \/ HitReturnSome \/ HitReturnNone

InitHitOnly ==
    InitParkedViewer /\ InitConv /\ InitAverage /\ InitPool /\ InitTiles /\ InitAnyHit /\ InitLib

SpecHit ==
    /\ InitHitOnly
    /\ [][NextHit /\ UNCHANGED <<convVars, viewerVars, averageVars, poolVars, tileVars, libVars>>]_vars

\* C10 as claimed: the loop ends after finitely many discarded hits, so no
\* iteration leaves the ray and t_max as it found them (the loop has no
\* other state: such an iteration is repeated for ever).
C10_HitTerminates == ~hit.repeats

\* the surfaces of scene that ray_triangle_intersection accepts for the
\* caller's ray, and the nearest of them
AcceptedByCaller == {i \in 1..Len(hit.scene) : Intersects(hit.scene, i, 0, hit.t_min, hit.t_max)}

NearestAccepted ==
    {i \in AcceptedByCaller : \A j \in AcceptedByCaller : hit.scene[i].pos <= hit.scene[j].pos}

\* the surfaces that are not masked out, at the distance d or farther and
\* within the caller's t_max, all distances taken from the caller's origin
OpaqueFrom(d) ==
    {i \in 1..Len(hit.scene) :
        /\ ~discard(hit.scene[i].material)
        /\ hit.scene[i].pos >= d
        /\ hit.scene[i].pos <= hit.t_max}

\* C11 as claimed: when the nearest accepted intersection of the caller's ray
\* lies on a masked-out material, Scene::hit returns the nearest surface that
\* is not masked out at the same or a greater distance within the original
\* t_max (None when there is none), whatever the order of the surfaces; two
\* coincident surfaces of which one is masked out give the other one.
C11_MaskedHitFallsThrough ==
    (/\ hit.pc = "done"
     /\ \E i \in NearestAccepted : discard(hit.scene[i].material))
    => LET d == hit.scene[CHOOSE i \in NearestAccepted : TRUE].pos
       IN  IF OpaqueFrom(d) = {} THEN hit.result.index = 0
           ELSE /\ hit.result.index \in OpaqueFrom(d)
                /\ \A j \in OpaqueFrom(d) :
                      hit.scene[hit.result.index].pos <= hit.scene[j].pos

\* C12: a Hit returned by Scene::hit has t_min <= t <= t_max and lies on a
\* surface that is not masked out; every masked-out hit has reduced the
\* remaining t_max by its t, so the discarded distances plus the final t are
\* the distance from the caller's origin and do not exceed the caller's
\* t_max; when no surface that is not masked out lies within the caller's
\* t_max the function returns None.
C12_ReturnedHitWithinRange ==
    /\ hit.t_max # F32Infinity => hit.current_t_max = hit.t_max - hit.travelled
    /\ hit.current_origin = hit.travelled
    /\ (hit.pc = "done" /\ hit.result.index # 0) =>
          /\ hit.t_min <= hit.result.t
          /\ hit.result.t <= hit.current_t_max
          /\ hit.result.t <= hit.t_max
          /\ hit.travelled + hit.result.t <= hit.t_max
          /\ hit.travelled + hit.result.t = hit.scene[hit.result.index].pos
          /\ ~discard(hit.scene[hit.result.index].material)
    /\ (hit.pc = "done" /\ OpaqueFrom(0) = {}) => hit.result.index = 0

\* a hit returned behind a discarded one, with a finite t_max
C12_Witness ==
    /\ hit.pc = "done"
    /\ hit.result.index # 0
    /\ hit.skipped # {}
    /\ hit.travelled > 0
    /\ hit.t_max # F32Infinity

\* Ray::point_at for the caller's ray: origin 0, unit direction
point_at(t) == 0 + t

\* C25 as claimed: t and position of a returned Hit are measured along the
\* caller's ray from the caller's origin, position = ray.point_at(t), also
\* when alpha-masked hits were skipped before the returned one.
C25_HitMeasuredFromCallerOrigin ==
    (hit.pc = "done" /\ hit.result.index # 0) =>
        hit.result.position = point_at(hit.result.t)

\* the orders in which the k-d trees can yield the surfaces of scene
Orders(scene) ==
    {[i \in 1..Len(scene) |-> scene[f[i]]] :
        f \in {g \in [1..Len(scene) -> 1..Len(scene)] :
                 \A a, b \in 1..Len(scene) : g[a] = g[b] => a = b}}

\* the surfaces ray_triangle_intersection accepts for the current ray
Accepted ==
    {i \in 1..Len(hit.scene) :
        Intersects(hit.scene, i, hit.current_origin, hit.t_min, hit.current_t_max)}

\* C13: hit_triangles returns None exactly when no triangle is accepted, and
\* otherwise an accepted intersection whose t is the smallest among all the
\* accepted ones; that t is the same for every order in which the k-d trees
\* yield the meshes and triangles.
C13_NearestInAnyOrder ==
    hit.pc = "loop" =>
        /\ HitFound = 0 <=> Accepted = {}
        /\ HitFound # 0 =>
              /\ HitFound \in Accepted
              /\ \A j \in Accepted : hit.scene[HitFound].pos <= hit.scene[j].pos
        /\ \A other \in Orders(hit.scene) :
              LET found == hit_triangles(other, hit.current_origin, hit.t_min, hit.current_t_max)
              IN  /\ found = 0 <=> HitFound = 0
                  /\ found # 0 => other[found].pos = hit.scene[HitFound].pos

\* the nearest accepted triangle was yielded after a farther accepted one
\* and has been returned
C13_Witness ==
    /\ hit.pc = "done"
    /\ Len(hit.scene) >= 2
    /\ hit.skipped = {}
    /\ hit.result.index = 2
    /\ 1 \in AcceptedByCaller
    /\ hit.scene[1].pos > hit.scene[2].pos

\* alpha mode Mask(cutoff) with the sampled alpha below the cutoff
BelowCutoff(material) ==
    material.alpha_mode = "Mask" /\ material.alpha < material.cutoff

\* C19 as claimed: Scene::hit skips an accepted hit exactly when its material
\* is Mask(cutoff) with the sampled alpha below the cutoff: every skipped
\* surface is such a one, and a returned hit is on an Opaque or Blend
\* material or on a Mask material whose alpha is equal to or above the cutoff.
C19_SkipsOnlyBelowCutoff ==
    /\ \A i \in hit.skipped : BelowCutoff(hit.scene[i].material)
    /\ (hit.pc = "done" /\ hit.result.index # 0) =>
          ~BelowCutoff(hit.scene[hit.result.index].material)

(***************************************************************************)
(* ray.rs: ray_triangle_intersection. Vectors are triples of whole         *)
(* numbers; u, v and t are the quotients of a numerator by det and are     *)
(* compared as such. The uv, tangent and bitangent of the result are left  *)
(* out.                                                                    *)
(***************************************************************************)
vsub(a, b) == <<a[1] - b[1], a[2] - b[2], a[3] - b[3]>>

cross(a, b) ==
    <<a[2] * b[3] - a[3] * b[2], a[3] * b[1] - a[1] * b[3], a[1] * b[2] - a[2] * b[1]>>

dot(a, b) == a[1] * b[1] + a[2] * b[2] + a[3] * b[3]

\* EnhancedVector::unit of a vector whose length is a whole number
unit(v) ==
    LET len == CHOOSE r \in 0..dot(v, v) : r * r = dot(v, v)
    IN  <<v[1] \div len, v[2] \div len, v[3] \div len>>

\* num / det < k and num / det > k
QuotLess(num, det, k) == IF det > 0 THEN num < k * det ELSE num > k * det

QuotGreater(num, det, k) == IF det > 0 THEN num > k * det ELSE num < k * det

NoIntersection == [some |-> FALSE, t_num |-> 0, det |-> 1, normal |-> <<0, 0, 0>>]

\* the test without single_sided: every triangle is culled from behind
backface_always(direction, normal, single_sided) == dot(direction, normal) > 0

\* Backface culling - counter clock-wise
backface(direction, normal, single_sided) ==
    dot(direction, normal) > 0 /\ single_sided

ray_triangle_intersection(ray, triangle, single_sided, t_min, t_max) ==
    LET v0v1 == vsub(triangle[2], triangle[1])
        v0v2 == vsub(triangle[3], triangle[1])
        pvec == cross(ray.direction, v0v2)
        det  == dot(v0v1, pvec)
        tvec == vsub(ray.origin, triangle[1])
        u    == dot(tvec, pvec)
        qvec == cross(tvec, v0v1)
        v    == dot(ray.direction, qvec)
        normal == unit(cross(v0v1, v0v2))
        t    == dot(v0v2, qvec)
    IN  IF det = 0 THEN NoIntersection
        ELSE IF QuotLess(u, det, 0) \/ QuotGreater(u, det, 1) THEN NoIntersection
        ELSE IF QuotLess(v, det, 0) \/ QuotGreater(u + v, det, 1) THEN NoIntersection
        ELSE IF backface(ray.direction, normal, single_sided) THEN NoIntersection
        ELSE IF QuotLess(t, det, t_min) \/ QuotGreater(t, det, t_max) THEN NoIntersection
        ELSE [some |-> TRUE, t_num |-> t, det |-> det, normal |-> normal]

\* triangles in the planes z = 0 and x = 0, in both windings
Triangles ==
    {<<<<0, 0, 0>>, <<4, 0, 0>>, <<0, 4, 0>>>>,
     <<<<0, 0, 0>>, <<0, 4, 0>>, <<4, 0, 0>>>>,
     <<<<0, 0, 0>>, <<0, 4, 0>>, <<0, 0, 4>>>>,
     <<<<0, 0, 0>>, <<0, 0, 4>>, <<0, 4, 0>>>>}

RayOrigins == {<<1, 1, -2>>, <<1, 1, 2>>, <<5, 1, -2>>, <<-2, 1, 1>>, <<2, 1, 1>>}

RayDirections == {<<0, 0, 1>>, <<0, 0, -1>>, <<1, 0, 0>>, <<-1, 0, 0>>, <<0, 1, 0>>}

IsectTMax == {1, 4, F32Infinity}

InitAnyIsect ==
    \E triangle \in Triangles, origin \in RayOrigins, direction \in RayDirections,
       single_sided \in BOOLEAN, t_min \in TMinValues, t_max \in IsectTMax :
        isect = [pc |-> "call", ray |-> [origin |-> origin, direction |-> direction],
                 triangle |-> triangle, single_sided |-> single_sided,
                 t_min |-> t_min, t_max |-> t_max, result |-> NoIntersection]

Intersect ==
    /\ isect.pc = "call"
    /\ isect' = [isect EXCEPT
                    !.pc = "done",
                    !.result = ray_triangle_intersection(isect.ray, isect.triangle,
                                   isect.single_sided, isect.t_min, isect.t_max)]

NextIsect == Intersect

InitIsectOnly ==
    /\ InitParkedViewer /\ InitConv /\ InitAverage /\ InitPool /\ InitTiles /\ InitHit
    /\ InitAnyIsect
    /\ trace = [pc |-> "done"]
    /\ nee = [pc |-> "done"]

SpecIsect ==
    /\ InitIsectOnly
    /\ [][NextIsect /\ UNCHANGED <<convVars, viewerVars, averageVars, poolVars, tileVars, hit,
                                   trace, nee>>]_vars

\* the geometric normal unit(e1 x e2) of the triangle of the call
GeometricNormal ==
    unit(cross(vsub(isect.triangle[2], isect.triangle[1]),
               vsub(isect.triangle[3], isect.triangle[1])))

\* the ray crosses the triangle at a t within [t_min, t_max]: the
\* intersection is valid but for the side it is seen from
OtherwiseValid ==
    LET e1 == vsub(isect.triangle[2], isect.triangle[1])
        e2 == vsub(isect.triangle[3], isect.triangle[1])
        p  == cross(isect.ray.direction, e2)
        det == dot(e1, p)
        o  == vsub(isect.ray.origin, isect.triangle[1])
        q  == cross(o, e1)
    IN  /\ det # 0
        /\ ~QuotLess(dot(o, p), det, 0)
        /\ ~QuotLess(dot(isect.ray.direction, q), det, 0)
        /\ ~QuotGreater(dot(o, p) + dot(isect.ray.direction, q), det, 1)
        /\ ~QuotLess(dot(e2, q), det, isect.t_min)
        /\ ~QuotGreater(dot(e2, q), det, isect.t_max)

\* C17: an otherwise valid intersection is rejected when
\* dot(ray.direction, geometric normal) > 0 and single_sided is true; with
\* single_sided false the same ray is accepted, and the normal returned is
\* the geometric normal unit(e1 x e2), not flipped towards the ray.
C17_BackfaceCulling ==
    (isect.pc = "done" /\ OtherwiseValid) =>
        IF dot(isect.ray.direction, GeometricNormal) > 0 /\ isect.single_sided
        THEN ~isect.result.some
        ELSE /\ isect.result.some
             /\ isect.result.normal = GeometricNormal

\* a single-sided triangle met from behind within [t_min, t_max]
C17_Witness ==
    /\ isect.pc = "done"
    /\ OtherwiseValid
    /\ dot(isect.ray.direction, GeometricNormal) > 0
    /\ isect.single_sided
    /\ ~isect.result.some

(***************************************************************************)
(* pathtracer.rs: Tracer::trace for one pixel, with grey colours (the three *)
(* channels are equal and one is kept). The scene is empty (no mesh:       *)
(* Scene::hit returns None for every ray) or not, and it may hold an       *)
(* alpha-masked surface; what the sampler, the materials, the lights and   *)
(* the BRDF return is drawn from small sets. A ray is kept as the y of its *)
(* unit direction, which is all the environment reads. hits counts the     *)
(* calls of Scene::hit for the path and samples the calls of brdf.sample.  *)
(***************************************************************************)
Half == F32Div(F32One, F32FromInt(2))

TraceSettings ==
    [max_scatter_depth : 0..MaxDepth, min_bounces : 0..1, shadow_rays : BOOLEAN,
     t_min : TMinValues]

\* env::Black and env::Gradient (colors as in Default for Gradient, one channel)
Environments ==
    {[kind |-> "Black", colors |-> <<F32Zero, F32Zero>>],
     [kind |-> "Gradient", colors |-> <<F32One, Half>>]}

TraceScenes ==
    {scene \in [empty : BOOLEAN, masked : BOOLEAN, env : Environments] :
        scene.masked => ~scene.empty}

DirectionYs == {-1, 0, 1}

\* Environment::color; for the unit directions of DirectionYs t and 1.0 - t
\* are 0, 0.5 or 1 and are exact
environment(scene, ray_y) ==
    IF scene.env.kind = "Black" THEN F32Zero
    ELSE LET t == F32Mul(Half, F32FromInt(ray_y + 1))
             one_minus_t == F32Mul(Half, F32FromInt(1 - ray_y))
         IN  F32Add(F32Mul(scene.env.colors[1], one_minus_t),
                    F32Mul(scene.env.colors[2], t))

\* material.emissive and the sum returned by sample_lights
Emissive == {F32Zero, F32One}

DirectLight == {F32One}

\* brdf.probability
Probabilities == {Half}

\* consts.rs LUMINANCE as f32: 0.2126, 0.7152, 0.0722
LUMINANCE ==
    <<[m |-> 14267344, e |-> -26], [m |-> 11999065, e |-> -24],
      [m |-> 9690520, e |-> -27]>>

\* rgb.dot(LUMINANCE) of the grey rgb
luminance(rgb) ==
    F32Add(F32Add(F32Mul(rgb, LUMINANCE[1]), F32Mul(rgb, LUMINANCE[2])),
           F32Mul(rgb, LUMINANCE[3]))

\* the literal 0.95 as f32
RouletteCap == [m |-> 15938355, e |-> -24]

\* let prob = luminance(throughput).min(0.95)
roulette_prob(throughput) == F32Min(luminance(throughput), RouletteCap)

\* sampler.next_float(): 0, 0.5, 0.95 and the f32 below 1
Uniforms == {F32Zero, Half, RouletteCap, [m |-> 16777215, e |-> -24]}

\* the path is ended on a draw equal to the probability too
roulette_breaks_on_equal(prob, u) == ~F32Less(u, prob)

\* if prob < sampler.next_float() { break; }
roulette_breaks(prob, u) == F32Less(prob, u)

\* if bounce > self.settings.min_bounces
roulette_applies(tc) == tc.bounce > tc.settings.min_bounces

\* brdf.eval and brdf.pdf
BrdfColors == {Half}

Pdfs == {F32One}

\* the colour returned whatever max_scatter_depth is
trace_result_plain(tc) == tc.color

\* match self.settings.max_scatter_depth { 1 => color + throughput, _ => color }
trace_result(tc) ==
    IF tc.settings.max_scatter_depth = 1 THEN F32Add(tc.color, tc.throughput)
    ELSE tc.color

trace_return(tc) == [tc EXCEPT !.pc = "done", !.result = trace_result(tc)]

InitAnyTrace ==
    \E settings \in TraceSettings, scene \in TraceScenes, y \in DirectionYs :
        trace = [pc |-> "loop", settings |-> settings, scene |-> scene,
                 primary_y |-> y, ray_y |-> y, bounce |-> 0,
                 color |-> F32Zero, throughput |-> F32One, updates |-> 0,
                 hits |-> 0, samples |-> 0, u |-> F32Zero,
                 result |-> F32Zero]

\* while bounce < max_scatter_depth: the condition is false
TraceLoopExit ==
    /\ trace.pc = "loop"
    /\ ~(trace.bounce < trace.settings.max_scatter_depth)
    /\ trace' = trace_return(trace)

\* scene.hit returns None: the environment is added and the loop is left
TraceMiss ==
    /\ trace.pc = "loop"
    /\ trace.bounce < trace.settings.max_scatter_depth
    /\ trace' = trace_return([trace EXCEPT
                    !.bounce = @ + 1,
                    !.hits = @ + 1,
                    !.color = F32Add(@, F32Mul(trace.throughput,
                                               environment(trace.scene, trace.ray_y)))])

\* scene.hit returns a hit: emission and direct light are added; the loop is
\* left when this was the last bounce
TraceHit ==
    /\ trace.pc = "loop"
    /\ trace.bounce < trace.settings.max_scatter_depth
    /\ ~trace.scene.empty
    /\ \E emissive \in Emissive, direct \in DirectLight :
          LET c1 == F32Add(trace.color, F32Mul(trace.throughput, emissive))
              c2 == IF trace.settings.shadow_rays
                    THEN F32Add(c1, F32Mul(trace.throughput, direct))
                    ELSE c1
              t1 == [trace EXCEPT !.bounce = @ + 1, !.hits = @ + 1, !.color = c2]
          IN  trace' = IF t1.bounce = t1.settings.max_scatter_depth
                       THEN trace_return(t1)
                       ELSE [t1 EXCEPT !.pc = "roulette"]

\* scene.hit does not return: with t_min = 0 the restart loop of Scene::hit
\* meets the alpha-masked surface it restarted from again and again (HitRestart)
TraceHitHangs ==
    /\ trace.pc = "loop"
    /\ trace.bounce < trace.settings.max_scatter_depth
    /\ trace.scene.masked
    /\ trace.settings.t_min = 0
    /\ trace' = [trace EXCEPT !.bounce = @ + 1, !.hits = @ + 1, !.pc = "hung"]

\* Russian roulette on the bounces it applies to: the path ends or the
\* throughput is divided by the probability
roulette(tc, u) ==
    IF roulette_applies(tc)
    THEN LET prob == roulette_prob(tc.throughput)
         IN  IF roulette_breaks(prob, u)
             THEN trace_return([tc EXCEPT !.u = u])
             ELSE [tc EXCEPT !.throughput = F32DivAny(@, prob), !.updates = @ + 1,
                             !.u = u, !.pc = "lobe"]
    ELSE [tc EXCEPT !.pc = "lobe"]

TraceRoulette ==
    /\ trace.pc = "roulette"
    /\ \E u \in Uniforms : trace' = roulette(trace, u)

\* throughput after the choice of the BRDF lobe
scatter_throughput(tc, pure_specular, brdf_prob) ==
    IF pure_specular THEN tc
    ELSE [tc EXCEPT !.throughput = F32Div(@, brdf_prob), !.updates = @ + 1]

\* brdf.sample returns None
TraceSampleNone ==
    /\ trace.pc = "lobe"
    /\ \E pure_specular \in BOOLEAN, brdf_prob \in Probabilities :
          trace' = trace_return([scatter_throughput(trace, pure_specular, brdf_prob)
                                    EXCEPT !.samples = @ + 1])

\* brdf.sample returns wi: throughput is updated and the ray replaced
TraceScatter ==
    /\ trace.pc = "lobe"
    /\ \E pure_specular \in BOOLEAN, brdf_prob \in Probabilities,
          mat_color \in BrdfColors, pdf \in Pdfs, wi_y \in DirectionYs :
          trace' = [scatter_throughput(trace, pure_specular, brdf_prob) EXCEPT
                       !.throughput = F32Div(F32Mul(@, mat_color), pdf),
                       !.updates = @ + 1,
                       !.samples = @ + 1,
                       !.u = F32Zero,
                       !.ray_y = wi_y,
                       !.pc = "loop"]

NextTrace ==
    \/ TraceLoopExit
    \/ TraceMiss
    \/ TraceHit
    \/ TraceHitHangs
    \/ TraceRoulette
    \/ TraceSampleNone
    \/ TraceScatter

InitTraceOnly ==
    /\ InitParkedViewer /\ InitConv /\ InitAverage /\ InitPool /\ InitTiles /\ InitHit
    /\ isect = [pc |-> "done"]
    /\ InitAnyTrace
    /\ nee = [pc |-> "done"]

SpecTrace ==
    /\ InitTraceOnly
    /\ [][NextTrace /\ UNCHANGED <<convVars, viewerVars, averageVars, poolVars, tileVars, hit,
                                   isect, nee>>]_vars

\* C14 as claimed: with a scene without meshes trace returns the environment
\* colour of the primary ray for every pixel and every TracerSettings value:
\* zero for Black, env.color(primary_ray) for a Gradient.
C14_EmptySceneGivesEnvironment ==
    (trace.pc = "done" /\ trace.scene.empty) =>
        trace.result = environment(trace.scene, trace.primary_y)

\* C20: trace returns the accumulated colour for every max_scatter_depth
\* other than 1 and colour + throughput for max_scatter_depth = 1, and in
\* that case the throughput was never updated: it is exactly 1 on the hit
\* path and on the miss path.
C20_SingleBounceAddsThroughput ==
    trace.pc = "done" =>
        IF trace.settings.max_scatter_depth = 1
        THEN /\ trace.updates = 0
             /\ trace.throughput = F32One
             /\ trace.result = F32Add(trace.color, F32One)
        ELSE trace.result = trace.color

\* a single-bounce trace that hit a surface and collected light
C20_Witness ==
    /\ trace.pc = "done"
    /\ trace.settings.max_scatter_depth = 1
    /\ ~trace.scene.empty
    /\ trace.color # F32Zero
    /\ trace.result = F32Add(trace.color, F32One)

\* C21 as claimed: one call of trace always terminates and performs at most
\* max_scatter_depth scene intersections for the path and at most
\* max_scatter_depth - 1 calls of brdf.sample (none for depth 0); on the
\* bounce whose index equals max_scatter_depth the loop is left after emission
\* and direct lighting, before the roulette, the lobe selection and the
\* scattering.
C21_TraceTerminatesWithinDepth ==
    /\ trace.pc # "hung"
    /\ trace.hits <= trace.settings.max_scatter_depth
    /\ trace.samples <= (IF trace.settings.max_scatter_depth = 0 THEN 0
                         ELSE trace.settings.max_scatter_depth - 1)
    /\ trace.pc \in {"roulette", "lobe"} =>
           trace.bounce < trace.settings.max_scatter_depth

F32LessEq(a, b) == ~IsNaN(a) /\ ~IsNaN(b) /\ (a = b \/ F32Less(a, b))

C22_Step ==
    trace.pc = "roulette" =>
        IF trace.bounce <= trace.settings.min_bounces
        THEN trace'.pc = "lobe" /\ trace'.throughput = trace.throughput
        ELSE LET p == F32Min(RouletteCap, luminance(trace.throughput))
             IN  /\ trace'.pc \in {"lobe", "done"}
                 /\ trace'.pc = "lobe" <=> F32LessEq(trace'.u, p)
                 /\ trace'.pc = "lobe" =>
                        trace'.throughput = F32DivAny(trace.throughput, p)

\* C22: Russian roulette is applied only on bounces whose index is greater
\* than min_bounces: on the first min_bounces bounces the path goes on with
\* its throughput unchanged, and on later bounces it continues if and only if
\* u <= p with p = min(0.95, luminance(throughput)), the throughput then
\* being divided by p.
C22_RouletteAfterMinBounces == [][C22_Step]_vars

\* a path that survived the roulette on a draw equal to the probability 0.95
C22_Witness ==
    /\ trace.pc = "lobe"
    /\ trace.bounce > trace.settings.min_bounces
    /\ trace.u = RouletteCap
    /\ trace.throughput = F32DivAny(F32One, RouletteCap)

(***************************************************************************)
(* pathtracer.rs: next-event estimation for one light, Tracer::sample_light *)
(* with Tracer::trace_light. The shadow ray is a call of Scene::hit (the   *)
(* variable hit) from the shading point towards the light; light.distance  *)
(* is the distance of a point light from the shading point and facing the  *)
(* sign of dot(normal, direction).                                         *)
(***************************************************************************)
Lights ==
    [kind : {"Point", "Directional"}, distance : 1..(MaxPos + 1), range : 1..(MaxPos + 1)]

Facings == {-1, 0, 1}

\* Light::direction_distance_from (the distance)
direction_distance_from(light) ==
    IF light.kind = "Directional" THEN F32Infinity ELSE light.distance

\* Shortcut for point lights too far away
out_of_range(light) ==
    light.kind = "Point" /\ light.distance * light.distance > light.range * light.range

InitAnyNee ==
    \E light \in Lights, facing \in Facings :
        nee = [pc |-> "call", light |-> light, facing |-> facing,
               visible |-> FALSE, color |-> F32Zero]

\* trace_light returns None for a point light out of range
NeeOutOfRange ==
    /\ nee.pc = "call"
    /\ out_of_range(nee.light)
    /\ nee' = [nee EXCEPT !.pc = "done", !.visible = FALSE, !.color = F32Zero]
    /\ UNCHANGED hit

\* cgmath::dot(*normal, direction) <= 0.
NeeFacingAway ==
    /\ nee.pc = "call"
    /\ ~out_of_range(nee.light)
    /\ nee.facing <= 0
    /\ nee' = [nee EXCEPT !.pc = "done", !.visible = FALSE, !.color = F32Zero]
    /\ UNCHANGED hit

\* self.scene.hit(&Ray::new(*position, direction), t_min, t_max) is called
NeeShoot ==
    /\ nee.pc = "call"
    /\ ~out_of_range(nee.light)
    /\ nee.facing > 0
    /\ nee' = [nee EXCEPT !.pc = "shadow"]
    /\ \E scene \in Scenes, t_min \in TMinValues, t_max \in TMaxValues :
          hit' = [scene |-> scene, t_min |-> t_min, t_max |-> t_max, pc |-> "loop",
                  current_origin |-> 0, current_t_max |-> t_max,
                  result |-> [index |-> 0, t |-> 0, position |-> 0], repeats |-> FALSE,
                  skipped |-> {}, travelled |-> 0]

\* the shadow ray inside Scene::hit
NeeHit ==
    /\ nee.pc = "shadow"
    /\ NextHit
    /\ UNCHANGED nee

\* match hit { Some(hit) if hit.t >= distance => Some, None => Some, _ => None }
light_visible(result, distance) ==
    IF result.index = 0 THEN TRUE ELSE result.t >= distance

\* the match of trace_light and that of sample_light:
\* brdf.eval * light.intensity_at / brdf.pdf or zero
NeeMatch ==
    /\ nee.pc = "shadow"
    /\ hit.pc = "done"
    /\ \E eval \in BrdfColors, pdf \in Pdfs :
          LET visible == light_visible(hit.result, direction_distance_from(nee.light))
          IN  nee' = [nee EXCEPT
                         !.pc = "done",
                         !.visible = visible,
                         !.color = IF visible THEN F32Div(F32Mul(eval, F32One), pdf)
                                   ELSE F32Zero]
    /\ UNCHANGED hit

NextNee == NeeOutOfRange \/ NeeFacingAway \/ NeeShoot \/ NeeHit \/ NeeMatch

InitNeeOnly ==
    /\ InitParkedViewer /\ InitConv /\ InitAverage /\ InitPool /\ InitTiles /\ InitHit
    /\ isect = [pc |-> "done"]
    /\ trace = [pc |-> "done"]
    /\ InitAnyNee

SpecNee ==
    /\ InitNeeOnly
    /\ [][NextNee /\ UNCHANGED <<convVars, viewerVars, averageVars, poolVars, tileVars,
                                 isect, trace>>]_vars

\* the surfaces that are not masked out, met by the shadow ray within
\* [t_min, t_max] and closer to the shading point than the light
Occluders ==
    {i \in 1..Len(hit.scene) :
        /\ ~discard(hit.scene[i].material)
        /\ hit.t_min <= hit.scene[i].pos
        /\ hit.scene[i].pos <= hit.t_max
        /\ hit.scene[i].pos < direction_distance_from(nee.light)}

\* C18 as claimed: the light contributes zero exactly when the shading point
\* is out of a point light's range, or dot(direction, normal) <= 0, or a
\* surface that is not masked out lies on the shadow ray within
\* [t_min, t_max] closer to the shading point than the light; otherwise it
\* contributes eval * intensity / pdf, masked-out surfaces in between or not.
C18_LightOccludedByNearerSurface ==
    nee.pc = "done" =>
        (nee.visible <=>
            ~(\/ out_of_range(nee.light)
              \/ nee.facing <= 0
              \/ Occluders # {}))

(***************************************************************************)
(* texture_data.rs: VectorWrapper, the iterator TextureData::reset         *)
(* collects into the RGBA floats it uploads. data is a buffer of up to     *)
(* MaxVectors Vector3 values.                                              *)
(***************************************************************************)
Components == {F32Zero, F32One, F32FromInt(2)}

Vectors == [1..3 -> Components]

NoItem == [some |-> FALSE, val |-> F32Zero]

\* the alpha is left out: the iterator steps to the next vector after z
VectorWrapper_next_rgb(it) ==
    IF it.index >= Len(it.data) THEN <<it, NoItem>>
    ELSE IF it.sub_index = 2
    THEN <<[it EXCEPT !.index = @ + 1, !.sub_index = 0],
           [some |-> TRUE, val |-> it.data[it.index + 1][3]]>>
    ELSE <<[it EXCEPT !.sub_index = @ + 1],
           [some |-> TRUE, val |-> it.data[it.index + 1][it.sub_index + 1]]>>

\* Iterator::next for VectorWrapper: <<the iterator after the call, the item>>
VectorWrapper_next(it) ==
    IF it.index >= Len(it.data) THEN <<it, NoItem>>
    ELSE IF it.sub_index = 3
    THEN <<[it EXCEPT !.index = @ + 1, !.sub_index = 0],
           [some |-> TRUE, val |-> F32One]>>
    ELSE <<[it EXCEPT !.sub_index = @ + 1],
           [some |-> TRUE, val |-> it.data[it.index + 1][it.sub_index + 1]]>>

\* VectorWrapper::new(&self.data)
InitAnyFlatten ==
    \E data \in SeqsUpTo(Vectors, MaxVectors) :
        flat = [pc |-> "collect", data |-> data, index |-> 0, sub_index |-> 0,
                out |-> <<>>]

\* collect::<Vec<f32>>(): one call of next, the item pushed or the end reached
FlattenNext ==
    /\ flat.pc = "collect"
    /\ LET r == VectorWrapper_next(flat)
       IN  flat' = IF r[2].some
                   THEN [r[1] EXCEPT !.out = Append(@, r[2].val)]
                   ELSE [r[1] EXCEPT !.pc = "done"]

NextFlatten == FlattenNext

InitFlattenOnly ==
    /\ InitParkedViewer /\ InitAverage /\ InitPool /\ InitTiles /\ InitHit /\ InitLib
    /\ InitAnyFlatten
    /\ conv = [pc |-> "done"]

SpecFlatten ==
    /\ InitFlattenOnly
    /\ [][NextFlatten /\ UNCHANGED <<viewerVars, averageVars, poolVars, tileVars, hit,
                                     libVars, conv>>]_vars

\* C29: the floats collected from a buffer of n vectors are x, y, z, 1.0 of
\* each vector in sequence: what has been yielded is always a prefix of that,
\* and when the iterator has ended there are exactly 4n of them.
C29_FlattenedIsRgba ==
    /\ Len(flat.out) <= 4 * Len(flat.data)
    /\ \A i \in 1..Len(flat.out) :
          flat.out[i] = IF i % 4 = 0 THEN F32One
                        ELSE flat.data[((i - 1) \div 4) + 1][i % 4]
    /\ flat.pc = "done" => Len(flat.out) = 4 * Len(flat.data)

\* a full buffer whose first vector is (0, 1, 2) has been flattened
C29_Witness ==
    /\ flat.pc = "done"
    /\ Len(flat.data) = MaxVectors
    /\ flat.data[1] = <<F32Zero, F32One, F32FromInt(2)>>
    /\ Len(flat.out) = 4 * MaxVectors

(***************************************************************************)
(* import_gltf.rs: from_u16, which to_texture applies to the two bytes of  *)
(* every channel of a 16-bit image.                                        *)
(***************************************************************************)
Lsbs == {0, 1, 127, 128, 255}

Msbs == (0..7) \cup (120..135) \cup (248..255)

\* `x as u8` for a non-negative f32: truncated, saturating, NaN to 0
F32ToU8(x) ==
    IF IsNaN(x) \/ x.m = 0 THEN 0
    ELSE IF x.e >= 0 THEN 255
    ELSE IF x.e <= -24 THEN 0
    ELSE LET n == x.m \div Pow2(-x.e)
         IN  IF n > 255 THEN 255 ELSE n

\* (255. * (((lsb as u16) | ((msb as u16) << 8)) as f32 / 165535.)) as u8
from_u16(lsb, msb) ==
    F32ToU8(F32Mul(F32FromInt(255),
                   F32DivAny(F32FromInt(lsb + 256 * msb), F32FromInt(165535))))

InitAnyU16 ==
    \E lsb \in Lsbs, msb \in Msbs :
        conv = [pc |-> "call", lsb |-> lsb, msb |-> msb, result |-> 0]

ConvertU16 ==
    /\ conv.pc = "call"
    /\ conv' = [conv EXCEPT !.pc = "done", !.result = from_u16(conv.lsb, conv.msb)]

NextU16 == ConvertU16

InitU16Only ==
    /\ InitParkedViewer /\ InitAverage /\ InitPool /\ InitTiles /\ InitHit /\ InitLib
    /\ flat = [pc |-> "done"]
    /\ InitAnyU16

SpecU16 ==
    /\ InitU16Only
    /\ [][NextU16 /\ UNCHANGED <<viewerVars, averageVars, poolVars, tileVars, hit,
                                 libVars, flat>>]_vars

\* C30 as claimed: from_u16(lsb, msb) is floor(255 * v / 65535) for the
\* little-endian value v = lsb + 256 * msb: monotone, 0 for 0 and 255 for 65535.
C30_U16ToFullByteRange ==
    conv.pc = "done" =>
        LET v == conv.lsb + 256 * conv.msb
        IN  /\ conv.result = (255 * v) \div 65535
            /\ v = 0 => conv.result = 0
            /\ v = 65535 => conv.result = 255
            /\ v > 0 => from_u16((v - 1) % 256, (v - 1) \div 256) <= conv.result

=============================================================================
